---- MODULE Spec2Model ----
(***************************************************************************)
(* A model of the multi-agent coordinator of src/task/agent.py             *)
(* (MASCoordinator) and of the UMS gateway of                              *)
(* src/task/coordination/ums_agent.py (UMSAgentGateway).                   *)
(*                                                                         *)
(* Spec          one handle_request run on a fresh MASCoordinator          *)
(* SpecSort      _topological_sort applied to every bounded subtask list   *)
(* SpecRecovery  __get_ums_conversation_id applied to bounded histories    *)
(* SpecRound     one run whose first round is any list with in-list        *)
(*               dependencies, cycles included                             *)
(* SpecRuns      several runs, one after the other, on one MASCoordinator  *)
(* SpecGateway   UMSAgentGateway.response over the turns of a conversation *)
(***************************************************************************)
EXTENDS Integers, Sequences, FiniteSets, TLC

VARIABLES
    pc,                     \* position of the run
    request_history,        \* request.messages: the state carried by each message
    task_calls,             \* handle_request: task_calls
    task_results,           \* handle_request: task_results
    task_decomposition,     \* handle_request: task_decomposition, the last one returned
    execution_order,        \* _execute_subtasks: execution_order
    pos,                    \* _execute_subtasks: index of the next task_id of the for loop
    results,                \* _execute_subtasks: results (a dict, kept in insertion order)
    ums_conversation_id,    \* self.ums_conversation_id
    gpa_intermediate_state, \* self.gpa_intermediate_state
    choice_state,           \* what choice.set_state was last given
    choice_content,         \* what choice.append_content has streamed so far
    final_content,          \* content of the Message handle_request returns
    calls,                  \* history: the _call_agent dispatches of the current round
    n_calls,                \* history: number of _call_agent dispatches of the run
    decomp_blocks,          \* history: the results block of every decomposition call
    accumulated,            \* history: every TaskResult in the order it was created
    agg_args,               \* history: results_context of every _aggregate_results call
    ended_by,               \* history: why the round loop ended
    error,                  \* the exception that ended the run, "" if none
    recovered,              \* SpecRecovery: what __get_ums_conversation_id returned
    run,                    \* history: number of handle_request runs entered so far
    created                 \* history: the conversations the UMS gateway created

vars == <<pc, request_history, task_calls, task_results, task_decomposition,
          execution_order,
          pos, results, ums_conversation_id, gpa_intermediate_state, choice_state,
          choice_content, final_content, calls, n_calls, decomp_blocks, accumulated,
          agg_args, ended_by, error, recovered, run, created>>

(***************************************************************************)
(* Bounds of the model and constants of the program.                       *)
(***************************************************************************)
\* largest task_id, and longest subtask list, that SpecSort enumerates
MaxTasks == 3

\* rounds in which the decomposition collaborator answers from RichCatalogue
RichRounds == 1

\* longest message history that SpecRecovery enumerates
MaxHistory == 3

\* most text increments of one aggregation stream
MaxChunks == 2

\* handle_request runs that SpecRuns makes on one MASCoordinator
MaxRuns == 2

\* turns of one conversation that SpecGateway follows
MaxTurns == 3

\* most UMSAgentGateway.response calls of one turn in SpecGateway
MaxUmsCalls == 2

\* handle_request: max_task_calls = 10
max_task_calls == 10

\* Python's None for depends_on (task_ids are positive integers)
NoDep == 0

\* Python's None for an Optional[str]
None == "None"

(***************************************************************************)
(* Data model (task.models, imported by src/task/agent.py).                *)
(***************************************************************************)
Subtask(id, agent, dep) ==
    [task_id |-> id, agent_name |-> agent,
     task_description |-> <<"task", id>>, depends_on |-> dep]

\* TaskDecomposition
TD(sts, stop) == [subtasks |-> sts, stop |-> stop]

\* task_decomposition.subtasks
subtasks == task_decomposition.subtasks

\* The TaskResult of a call that returned `content`.
SuccessResult(subtask, content) ==
    [task |-> subtask,
     agent_result |-> [task_id |-> subtask.task_id, agent_name |-> subtask.agent_name,
                       content |-> content, success |-> TRUE, error |-> None]]

\* The TaskResult of a call that raised an exception whose str() is `msg`.
FailureResult(subtask, msg) ==
    [task |-> subtask,
     agent_result |-> [task_id |-> subtask.task_id, agent_name |-> subtask.agent_name,
                       content |-> "", success |-> FALSE, error |-> msg]]

\* TaskResult.model_dump_json(): the JSON text of one result.
model_dump_json(result) == <<"json", result>>

\* The state of a message: custom_content.state, with its two keys.
\* has = FALSE stands for a message without custom content or with an empty state.
NoState == [has |-> FALSE, ums |-> None, gpa |-> <<>>]

State(id, frags) == [has |-> TRUE, ums |-> id, gpa |-> frags]

\* No Message has been returned by _aggregate_results.
NoMessage == [returned |-> FALSE, content |-> <<>>]

\* The Message(role=ASSISTANT, content=content) that _aggregate_results returns.
ReturnedMessage(content) == [returned |-> TRUE, content |-> content]

\* Python truthiness of an Optional[str]
Truthy(s) == s # None /\ s # ""

(***************************************************************************)
(* Sequence helpers.                                                       *)
(***************************************************************************)
\* sorted(xs) for a list of integers (insertion sort)
RECURSIVE Insert(_, _)
Insert(x, s) ==
    IF s = <<>> THEN <<x>>
    ELSE IF x <= Head(s) THEN <<x>> \o s
    ELSE <<Head(s)>> \o Insert(x, Tail(s))

RECURSIVE sorted(_)
sorted(s) == IF s = <<>> THEN <<>> ELSE Insert(Head(s), sorted(Tail(s)))

\* the positions of x in s
Positions(s, x) == {i \in DOMAIN s : s[i] = x}

(***************************************************************************)
(* MASCoordinator._topological_sort                                        *)
(***************************************************************************)
TaskIds(sts) == {sts[i].task_id : i \in DOMAIN sts}

\* children[depends_on].append(task_id) raises KeyError for a depends_on
\* that is no task_id of the list
SortRaisesKeyError(sts) ==
    \E i \in DOMAIN sts :
        sts[i].depends_on # NoDep /\ sts[i].depends_on \notin TaskIds(sts)

RECURSIVE ChildrenOf(_, _)
ChildrenOf(sts, id) ==
    IF sts = <<>> THEN <<>>
    ELSE (IF Head(sts).depends_on = id THEN <<Head(sts).task_id>> ELSE <<>>)
         \o ChildrenOf(Tail(sts), id)

\* children after the first loop
Children(sts) == [id \in TaskIds(sts) |-> ChildrenOf(sts, id)]

\* parent_count after the first loop
ParentCount(sts) ==
    [id \in TaskIds(sts) |->
        IF \E i \in DOMAIN sts : sts[i].task_id = id /\ sts[i].depends_on # NoDep
        THEN 1 ELSE 0]

\* a mutation of InitialQueue: every task is seeded, whatever its parent_count
InitialQueue_SeedsAll(sts, parent_count) == [i \in DOMAIN sts |-> sts[i].task_id]

RECURSIVE InitialQueue(_, _)
InitialQueue(sts, parent_count) ==
    IF sts = <<>> THEN <<>>
    ELSE (IF parent_count[Head(sts).task_id] = 0 THEN <<Head(sts).task_id>> ELSE <<>>)
         \o InitialQueue(Tail(sts), parent_count)

\* the for loop over sorted(children[task_id]): the queue and parent_count after it
RECURSIVE VisitChildren(_, _, _)
VisitChildren(kids, queue, parent_count) ==
    IF kids = <<>> THEN [queue |-> queue, parent_count |-> parent_count]
    ELSE LET child_id == Head(kids)
             pcnt == [parent_count EXCEPT ![child_id] = @ - 1]
         IN  VisitChildren(Tail(kids),
                           IF pcnt[child_id] = 0 THEN Append(queue, child_id) ELSE queue,
                           pcnt)

\* the while loop
RECURSIVE KahnLoop(_, _, _, _)
KahnLoop(queue, result, parent_count, children) ==
    IF queue = <<>> THEN result
    ELSE LET task_id == Head(queue)
             after == VisitChildren(sorted(children[task_id]), Tail(queue), parent_count)
         IN  KahnLoop(after.queue, Append(result, task_id), after.parent_count, children)

\* a mutation of TopologicalSort: the tasks the loop never reached are appended to
\* the order
TopologicalSort_AppendsRest(sts) ==
    LET order == KahnLoop(InitialQueue(sts, ParentCount(sts)), <<>>, ParentCount(sts),
                          Children(sts))
        ids == [i \in DOMAIN sts |-> sts[i].task_id]
    IN  order \o SelectSeq(ids, LAMBDA id : \A p \in DOMAIN order : order[p] # id)

\* the returned order (defined when no KeyError is raised)
TopologicalSort(sts) ==
    KahnLoop(InitialQueue(sts, ParentCount(sts)), <<>>, ParentCount(sts), Children(sts))

\* subtasks_by_id[task_id]
TaskOf(sts, id) == sts[CHOOSE i \in DOMAIN sts : sts[i].task_id = id]

(***************************************************************************)
(* MASCoordinator._gather_context and the instruction of _call_agent       *)
(***************************************************************************)
\* results is a dict keyed by task_id, kept as the sequence of its values in
\* insertion order
InResults(res, id) == \E i \in DOMAIN res : res[i].task.task_id = id

ResultOf(res, id) == res[CHOOSE i \in DOMAIN res : res[i].task.task_id = id]

\* a mutation of DictPut: the dict is replaced by one that holds the new value only
DictPut_KeepsLast(res, id, value) == <<value>>

\* results[task_id] = value: a new key is appended, an old key keeps its place
DictPut(res, id, value) ==
    IF InResults(res, id)
    THEN [i \in DOMAIN res |-> IF res[i].task.task_id = id THEN value ELSE res[i]]
    ELSE Append(res, value)

\* a mutation of GatherContext: the latest result of the round is passed on, whatever
\* task it belongs to
GatherContext_LastResult(subtask, res) ==
    IF subtask.depends_on = NoDep THEN <<>>
    ELSE IF res # <<>> /\ res[Len(res)].agent_result.success
         THEN model_dump_json(res[Len(res)])
         ELSE <<>>

\* a mutation of GatherContext: the dependency's result is passed on even if it failed
GatherContext_IgnoresSuccess(subtask, res) ==
    IF subtask.depends_on = NoDep THEN <<>>
    ELSE IF InResults(res, subtask.depends_on)
         THEN model_dump_json(ResultOf(res, subtask.depends_on))
         ELSE <<>>

\* _gather_context: None, or the JSON text of the dependency's TaskResult
GatherContext(subtask, res) ==
    IF subtask.depends_on = NoDep THEN <<>>
    ELSE IF InResults(res, subtask.depends_on)
            /\ ResultOf(res, subtask.depends_on).agent_result.success
         THEN model_dump_json(ResultOf(res, subtask.depends_on))
         ELSE <<>>

\* _call_agent: instruction (an absent context is the empty text)
Instruction(task_description, context) ==
    IF context # <<>>
    THEN <<context, "\n\n---\n\nYour Task: ", task_description>>
    ELSE <<task_description>>

(***************************************************************************)
(* State merging of _execute_subtasks (lines 149-154)                      *)
(***************************************************************************)
MergeUmsId(state, current) ==
    IF state.has /\ Truthy(state.ums) THEN state.ums ELSE current

MergeGpaMessages(state, acc) ==
    IF state.has /\ ~Truthy(state.ums) /\ state.gpa # <<>> THEN acc \o state.gpa ELSE acc

(***************************************************************************)
(* The results blocks of _decompose_task and _aggregate_results            *)
(***************************************************************************)
RECURSIVE DumpAll(_)
DumpAll(res) ==
    IF res = <<>> THEN <<>> ELSE <<model_dump_json(Head(res))>> \o DumpAll(Tail(res))

\* a mutation of DecompositionBlock: failed results are left out of the block
DecompositionBlock_SuccessOnly(previous_results) ==
    IF previous_results # <<>>
    THEN <<"## Results from previous tasks:">>
         \o DumpAll(SelectSeq(previous_results, LAMBDA r : r.agent_result.success))
    ELSE <<>>

\* _decompose_task: what is prepended to the last message (<<>>: nothing is)
DecompositionBlock(previous_results) ==
    IF previous_results # <<>>
    THEN <<"## Results from previous tasks:">> \o DumpAll(previous_results)
    ELSE <<>>

\* a mutation of AggregationBlock: failed results are left out of the block
AggregationBlock_SuccessOnly(results_list) ==
    <<"# Tasks Results:">>
    \o DumpAll(SelectSeq(results_list, LAMBDA r : r.agent_result.success))

\* _aggregate_results: results_context
AggregationBlock(results_list) == <<"# Tasks Results:">> \o DumpAll(results_list)

(***************************************************************************)
(* UMSAgentGateway.__get_ums_conversation_id                               *)
(***************************************************************************)
\* a mutation of get_ums_conversation_id: the history is scanned from its end
RECURSIVE get_ums_conversation_id_FromEnd(_)
get_ums_conversation_id_FromEnd(messages) ==
    IF messages = <<>> THEN None
    ELSE LET last == messages[Len(messages)]
         IN  IF last.has /\ Truthy(last.ums) THEN last.ums
             ELSE get_ums_conversation_id_FromEnd(SubSeq(messages, 1, Len(messages) - 1))

RECURSIVE get_ums_conversation_id(_)
get_ums_conversation_id(messages) ==
    IF messages = <<>> THEN None
    ELSE IF Head(messages).has /\ Truthy(Head(messages).ums) THEN Head(messages).ums
    ELSE get_ums_conversation_id(Tail(messages))

(***************************************************************************)
(* handle_request: the round loop                                          *)
(***************************************************************************)
\* a mutation of LoopContinues: the loop guard is off by one
LoopContinues_OffByOne(n) == n <= max_task_calls

\* while task_calls < max_task_calls
LoopContinues(n) == n < max_task_calls

\* a mutation of ShouldStop: the stop flag is not looked at
ShouldStop_IgnoresStop(td) == td.subtasks = <<>>

\* if not task_decomposition.subtasks or task_decomposition.stop: break
ShouldStop(td) == td.subtasks = <<>> \/ td.stop

\* The next iteration of the while loop, or the end of the loop, once the round's
\* results have been appended: the next decomposition call is made with the block
\* of all results so far, or _aggregate_results is called.
LoopBack(all_results) ==
    IF LoopContinues(task_calls)
    THEN /\ task_calls' = task_calls + 1
         /\ decomp_blocks' = Append(decomp_blocks, DecompositionBlock(all_results))
         /\ pc' = "decompose"
         /\ UNCHANGED <<agg_args, ended_by>>
    ELSE /\ pc' = "aggregate"
         /\ agg_args' = Append(agg_args, AggregationBlock(all_results))
         /\ ended_by' = "cap"
         /\ UNCHANGED <<task_calls, decomp_blocks>>

\* return list(results.values()); task_results.extend(iteration_results)
EndRound(round_results) ==
    /\ task_results' = task_results \o round_results
    /\ LoopBack(task_results \o round_results)

\* handle_request is entered with the request's message history; the first
\* decomposition call is made (max_task_calls > 0)
HandleRequest(messages) ==
    /\ pc = "idle"
    /\ request_history' = messages
    /\ task_results' = <<>>
    /\ task_calls' = 1
    /\ decomp_blocks' = Append(decomp_blocks, DecompositionBlock(<<>>))
    /\ run' = run + 1
    /\ pc' = "decompose"
    /\ UNCHANGED <<task_decomposition, execution_order, pos, results, ums_conversation_id,
                   gpa_intermediate_state, choice_state, choice_content, final_content,
                   calls, n_calls, accumulated, agg_args, ended_by, error, recovered,
                   created>>

\* a mutation of DecomposeRaise: the exception is caught and the loop is left as if
\* the decomposition had asked to stop
DecomposeRaise_Swallowed ==
    /\ pc = "decompose"
    /\ pc' = "aggregate"
    /\ error' = "DecompositionError"
    /\ agg_args' = Append(agg_args, AggregationBlock(task_results))
    /\ ended_by' = "error"
    /\ UNCHANGED <<request_history, task_calls, task_results, task_decomposition,
                   execution_order, pos, results, ums_conversation_id,
                   gpa_intermediate_state, choice_state, choice_content, final_content,
                   calls, n_calls, decomp_blocks, accumulated, recovered, run, created>>

\* the decomposition call raises, or its output does not validate
DecomposeRaise ==
    /\ pc = "decompose"
    /\ pc' = "failed"
    /\ error' = "DecompositionError"
    /\ UNCHANGED <<request_history, task_calls, task_results, task_decomposition, execution_order,
                   pos, results, ums_conversation_id, gpa_intermediate_state,
                   choice_state, choice_content, final_content, calls, n_calls,
                   decomp_blocks, accumulated, agg_args, ended_by, recovered, run, created>>

\* the decomposition call returns td and the loop breaks
DecomposeStop(td) ==
    /\ pc = "decompose"
    /\ ShouldStop(td)
    /\ pc' = "aggregate"
    /\ agg_args' = Append(agg_args, AggregationBlock(task_results))
    /\ ended_by' = IF td.stop THEN "stop" ELSE "empty"
    /\ task_decomposition' = td
    /\ execution_order' = <<>>
    /\ pos' = 1
    /\ results' = <<>>
    /\ calls' = <<>>
    /\ UNCHANGED <<request_history, task_calls, task_results, ums_conversation_id,
                   gpa_intermediate_state, choice_state, choice_content, final_content,
                   n_calls, decomp_blocks, accumulated, error, recovered, run, created>>

\* the decomposition call returns td and _execute_subtasks is entered, where
\* _topological_sort raises KeyError: nothing catches it
DecomposeSortRaise(td) ==
    /\ pc = "decompose"
    /\ ~ShouldStop(td)
    /\ SortRaisesKeyError(td.subtasks)
    /\ pc' = "failed"
    /\ error' = "KeyError"
    /\ task_decomposition' = td
    /\ execution_order' = <<>>
    /\ pos' = 1
    /\ results' = <<>>
    /\ calls' = <<>>
    /\ UNCHANGED <<request_history, task_calls, task_results, ums_conversation_id,
                   gpa_intermediate_state, choice_state, choice_content, final_content,
                   n_calls, decomp_blocks, accumulated, agg_args, ended_by, recovered,
                   run, created>>

\* the decomposition call returns td and _execute_subtasks is entered, up to the
\* first pass of its for loop (an empty execution order ends the round at once)
DecomposeExecute(td) ==
    /\ pc = "decompose"
    /\ ~ShouldStop(td)
    /\ ~SortRaisesKeyError(td.subtasks)
    /\ task_decomposition' = td
    /\ execution_order' = TopologicalSort(td.subtasks)
    /\ pos' = 1
    /\ results' = <<>>
    /\ calls' = <<>>
    /\ IF TopologicalSort(td.subtasks) = <<>>
       THEN EndRound(<<>>)
       ELSE /\ pc' = "execute"
            /\ UNCHANGED <<task_results, task_calls, decomp_blocks, agg_args, ended_by>>
    /\ UNCHANGED <<request_history, ums_conversation_id, gpa_intermediate_state,
                   choice_state, choice_content, final_content, n_calls, accumulated,
                   error, recovered, run, created>>

(***************************************************************************)
(* _execute_subtasks: one pass of the for loop                             *)
(***************************************************************************)
CurrentTask == TaskOf(subtasks, execution_order[pos])

CurrentInstruction ==
    Instruction(CurrentTask.task_description, GatherContext(CurrentTask, results))

\* results[task_id] = value, then the next pass or the end of the round
Record(value, outcome, state) ==
    /\ calls' = Append(calls, [task_id |-> CurrentTask.task_id,
                               agent_name |-> CurrentTask.agent_name,
                               instruction |-> CurrentInstruction,
                               outcome |-> outcome,
                               state |-> state])
    /\ n_calls' = n_calls + 1
    /\ accumulated' = Append(accumulated, value)
    /\ results' = DictPut(results, CurrentTask.task_id, value)
    /\ pos' = pos + 1
    /\ IF pos = Len(execution_order)
       THEN EndRound(DictPut(results, CurrentTask.task_id, value))
       ELSE UNCHANGED <<pc, task_results, task_calls, decomp_blocks, agg_args, ended_by>>

\* the GPA gateway returns a message with this content and state
ExecGpaReturn(content, state) ==
    /\ pc = "execute"
    /\ CurrentTask.agent_name = "GPA"
    /\ ums_conversation_id' = MergeUmsId(state, ums_conversation_id)
    /\ gpa_intermediate_state' = MergeGpaMessages(state, gpa_intermediate_state)
    /\ Record(SuccessResult(CurrentTask, content), "returned", state)
    /\ UNCHANGED <<request_history, task_decomposition, execution_order, choice_state,
                   choice_content, final_content, error, recovered, run, created>>

\* a mutation of ExecGpaRaise: the exception is not caught and ends the run
ExecGpaRaise_Propagates(msg) ==
    /\ pc = "execute"
    /\ CurrentTask.agent_name = "GPA"
    /\ calls' = Append(calls, [task_id |-> CurrentTask.task_id,
                               agent_name |-> CurrentTask.agent_name,
                               instruction |-> CurrentInstruction,
                               outcome |-> "raised",
                               state |-> NoState])
    /\ n_calls' = n_calls + 1
    /\ pc' = "failed"
    /\ error' = "GatewayError"
    /\ UNCHANGED <<request_history, task_calls, task_results, task_decomposition,
                   execution_order, pos, results, ums_conversation_id,
                   gpa_intermediate_state, choice_state, choice_content, final_content,
                   decomp_blocks, accumulated, agg_args, ended_by, recovered, run, created>>

\* the GPA gateway raises an exception e with str(e) = msg
ExecGpaRaise(msg) ==
    /\ pc = "execute"
    /\ CurrentTask.agent_name = "GPA"
    /\ Record(FailureResult(CurrentTask, msg), "raised", NoState)
    /\ UNCHANGED <<request_history, task_decomposition, execution_order, ums_conversation_id,
                   gpa_intermediate_state, choice_state, choice_content, final_content,
                   error, recovered, run, created>>

\* _call_agent passes task_description= and ums_conversation_id= to
\* UMSAgentGateway.response(choice, stage, request, additional_instructions):
\* the call raises TypeError before the gateway's body runs
ExecUmsRaise ==
    /\ pc = "execute"
    /\ CurrentTask.agent_name = "UMS"
    /\ Record(FailureResult(CurrentTask, "response() got an unexpected keyword argument"),
              "raised", NoState)
    /\ UNCHANGED <<request_history, task_decomposition, execution_order, ums_conversation_id,
                   gpa_intermediate_state, choice_state, choice_content, final_content,
                   error, recovered, run, created>>

\* a mutation of ExecUnknownAgent: the ValueError is not caught and ends the run
ExecUnknownAgent_Propagates ==
    /\ pc = "execute"
    /\ CurrentTask.agent_name \notin {"GPA", "UMS"}
    /\ calls' = Append(calls, [task_id |-> CurrentTask.task_id,
                               agent_name |-> CurrentTask.agent_name,
                               instruction |-> CurrentInstruction,
                               outcome |-> "raised",
                               state |-> NoState])
    /\ n_calls' = n_calls + 1
    /\ pc' = "failed"
    /\ error' = "ValueError"
    /\ UNCHANGED <<request_history, task_calls, task_results, task_decomposition,
                   execution_order, pos, results, ums_conversation_id,
                   gpa_intermediate_state, choice_state, choice_content, final_content,
                   decomp_blocks, accumulated, agg_args, ended_by, recovered, run, created>>

\* _call_agent raises ValueError for any other agent_name, inside the try
ExecUnknownAgent ==
    /\ pc = "execute"
    /\ CurrentTask.agent_name \notin {"GPA", "UMS"}
    /\ Record(FailureResult(CurrentTask, "Unknown agent"), "raised", NoState)
    /\ UNCHANGED <<request_history, task_decomposition, execution_order, ums_conversation_id,
                   gpa_intermediate_state, choice_state, choice_content, final_content,
                   error, recovered, run, created>>

(***************************************************************************)
(* _aggregate_results and the end of handle_request                        *)
(***************************************************************************)
\* content += delta.content over the chunks (a chunk without content adds nothing)
RECURSIVE Concat(_)
Concat(chunks) == IF chunks = <<>> THEN <<>> ELSE Head(chunks) \o Concat(Tail(chunks))

\* the stream yields these chunks and ends: the message is returned and
\* handle_request sets the choice state
AggregateReturn(chunks) ==
    /\ pc = "aggregate"
    /\ choice_content' = choice_content \o Concat(chunks)
    /\ final_content' = ReturnedMessage(Concat(chunks))
    /\ choice_state' = State(ums_conversation_id, gpa_intermediate_state)
    /\ pc' = "done"
    /\ UNCHANGED <<request_history, task_calls, task_results, task_decomposition, execution_order,
                   pos, results, ums_conversation_id, gpa_intermediate_state, calls,
                   n_calls, decomp_blocks, accumulated, agg_args, ended_by, error,
                   recovered, run, created>>

\* a mutation of AggregateRaise: the exception is caught and the content streamed
\* so far is returned
AggregateRaise_ReturnsPartial(chunks) ==
    /\ pc = "aggregate"
    /\ choice_content' = choice_content \o Concat(chunks)
    /\ final_content' = ReturnedMessage(Concat(chunks))
    /\ choice_state' = State(ums_conversation_id, gpa_intermediate_state)
    /\ pc' = "done"
    /\ error' = "AggregationError"
    /\ UNCHANGED <<request_history, task_calls, task_results, task_decomposition,
                   execution_order, pos, results, ums_conversation_id,
                   gpa_intermediate_state, calls, n_calls, decomp_blocks, accumulated,
                   agg_args, ended_by, recovered, run, created>>

\* the call raises, or the stream raises after yielding these chunks: nothing
\* catches it
AggregateRaise(chunks) ==
    /\ pc = "aggregate"
    /\ choice_content' = choice_content \o Concat(chunks)
    /\ pc' = "failed"
    /\ error' = "AggregationError"
    /\ UNCHANGED <<request_history, task_calls, task_results, task_decomposition, execution_order,
                   pos, results, ums_conversation_id, gpa_intermediate_state,
                   choice_state, final_content, calls, n_calls, decomp_blocks,
                   accumulated, agg_args, ended_by, recovered, run, created>>

\* every variable but pc and subtasks, as __init__ and a run's start leave it
Idle ==
    /\ request_history = <<>>
    /\ task_calls = 0
    /\ task_results = <<>>
    /\ execution_order = <<>>
    /\ pos = 1
    /\ results = <<>>
    /\ ums_conversation_id = None
    /\ gpa_intermediate_state = <<>>
    /\ choice_state = NoState
    /\ choice_content = <<>>
    /\ final_content = NoMessage
    /\ calls = <<>>
    /\ n_calls = 0
    /\ decomp_blocks = <<>>
    /\ accumulated = <<>>
    /\ agg_args = <<>>
    /\ ended_by = ""
    /\ error = ""
    /\ recovered = None
    /\ run = 0
    /\ created = <<>>

(***************************************************************************)
(* Spec: one handle_request run on a fresh MASCoordinator.  The             *)
(* collaborators and the GPA gateway answer from small sets.                *)
(***************************************************************************)
\* what the decomposition collaborator may return in the first RichRounds rounds
RichCatalogue ==
    { TD(<<>>, FALSE),
      TD(<<>>, TRUE),
      TD(<<Subtask(1, "GPA", NoDep)>>, TRUE),
      TD(<<Subtask(1, "GPA", NoDep), Subtask(2, "GPA", 1)>>, FALSE),
      TD(<<Subtask(2, "UMS", 1), Subtask(1, "GPA", NoDep)>>, FALSE),
      TD(<<Subtask(1, "OTHER", NoDep), Subtask(2, "GPA", NoDep)>>, FALSE),
      TD(<<Subtask(1, "GPA", 1), Subtask(2, "GPA", NoDep)>>, FALSE),
      TD(<<Subtask(1, "GPA", NoDep), Subtask(3, "UMS", 1), Subtask(2, "GPA", 1)>>, FALSE) }

\* what it may return in the later rounds
LateCatalogue ==
    { TD(<<>>, FALSE),
      TD(<<Subtask(1, "UMS", NoDep)>>, TRUE),
      TD(<<Subtask(1, "UMS", NoDep)>>, FALSE),
      TD(<<Subtask(3, "GPA", 2)>>, FALSE) }

Catalogue == IF task_calls <= RichRounds THEN RichCatalogue ELSE LateCatalogue

\* the message histories a request may carry
Histories == { <<>>, <<State("abc", <<>>)>> }

\* what a returned GPA message may carry as state
GpaStates == { NoState, State(None, <<"f1">>) }

GpaContents == { "X" }

GatewayErrors == { "gateway error" }

Chunk == { <<>>, <<"a">> }

Streams == UNION {[1..n -> Chunk] : n \in 0..MaxChunks}

Init ==
    /\ pc = "idle"
    /\ task_decomposition = TD(<<>>, FALSE)
    /\ Idle

Next ==
    \/ \E h \in Histories : HandleRequest(h)
    \/ DecomposeRaise
    \/ \E td \in Catalogue : DecomposeStop(td)
    \/ \E td \in Catalogue : DecomposeSortRaise(td)
    \/ \E td \in Catalogue : DecomposeExecute(td)
    \/ \E c \in GpaContents, st \in GpaStates : ExecGpaReturn(c, st)
    \/ \E m \in GatewayErrors : ExecGpaRaise(m)
    \/ ExecUmsRaise
    \/ ExecUnknownAgent
    \/ \E s \in Streams : AggregateReturn(s)
    \/ \E s \in Streams : AggregateRaise(s)

Spec == Init /\ [][Next]_vars

(***************************************************************************)
(* SpecSort: the scheduler applied to every list of at most MaxTasks        *)
(* subtasks with distinct task_ids in 1..MaxTasks and depends_on in         *)
(* {None} \cup 1..MaxTasks.                                                 *)
(***************************************************************************)
SortInputs ==
    UNION {
        {s \in [1..n -> {Subtask(id, "GPA", dep) : id \in 1..MaxTasks, dep \in 0..MaxTasks}] :
            \A i, j \in 1..n : i # j => s[i].task_id # s[j].task_id}
        : n \in 0..MaxTasks}

InitSort ==
    /\ pc = "sort"
    /\ task_decomposition \in {TD(sts, FALSE) : sts \in SortInputs}
    /\ Idle

SortReturn ==
    /\ pc = "sort"
    /\ ~SortRaisesKeyError(subtasks)
    /\ execution_order' = TopologicalSort(subtasks)
    /\ pc' = "sorted"
    /\ UNCHANGED <<request_history, task_calls, task_results, task_decomposition, pos, results,
                   ums_conversation_id, gpa_intermediate_state, choice_state,
                   choice_content, final_content, calls, n_calls, decomp_blocks,
                   accumulated, agg_args, ended_by, error, recovered, run, created>>

SortRaise ==
    /\ pc = "sort"
    /\ SortRaisesKeyError(subtasks)
    /\ error' = "KeyError"
    /\ pc' = "failed"
    /\ UNCHANGED <<request_history, task_calls, task_results, task_decomposition, execution_order,
                   pos, results, ums_conversation_id, gpa_intermediate_state,
                   choice_state, choice_content, final_content, calls, n_calls,
                   decomp_blocks, accumulated, agg_args, ended_by, recovered, run, created>>

NextSort == SortReturn \/ SortRaise

SpecSort == InitSort /\ [][NextSort]_vars

(***************************************************************************)
(* SpecRound: one handle_request run whose first round is any list of       *)
(* SortInputs without a depends_on outside the list; every call returns,    *)
(* and the second decomposition ends the loop.                              *)
(***************************************************************************)
InListInputs == {sts \in SortInputs : ~SortRaisesKeyError(sts)}

RoundCatalogue ==
    IF task_calls = 1 THEN {TD(sts, FALSE) : sts \in InListInputs} ELSE {TD(<<>>, FALSE)}

NextRound ==
    \/ HandleRequest(<<>>)
    \/ pc = "decompose" /\ \E td \in RoundCatalogue : DecomposeStop(td)
    \/ pc = "decompose" /\ \E td \in RoundCatalogue : DecomposeExecute(td)
    \/ ExecGpaReturn("X", NoState)
    \/ AggregateReturn(<<>>)

SpecRound == Init /\ [][NextRound]_vars

(***************************************************************************)
(* SpecRuns: up to MaxRuns handle_request runs, one after the other, on     *)
(* the same MASCoordinator; every run serves another conversation.  What    *)
(* the GPA gateway returns in run r is marked with r.                       *)
(***************************************************************************)
\* the session identifier a gateway returns in run r
SessionOf(r) == ToString(r)

\* the conversation fragment a gateway returns in run r
Fragment(r) == <<"fragment", r>>

\* the states a returned message may carry in run r: none, either key, both keys
RunStates(r) ==
    { NoState,
      State(None, <<Fragment(r)>>),
      State(SessionOf(r), <<>>),
      State(SessionOf(r), <<Fragment(r)>>) }

RunsCatalogue ==
    IF task_calls = 1
    THEN { TD(<<>>, FALSE),
           TD(<<Subtask(1, "GPA", NoDep), Subtask(2, "GPA", 1)>>, FALSE) }
    ELSE { TD(<<>>, TRUE) }

\* handle_request is entered again on the same instance, with a new choice and
\* the request of another conversation: the locals start afresh, the fields of
\* self are what the earlier run left
HandleNextRequest(messages) ==
    /\ pc \in {"done", "failed"}
    /\ run < MaxRuns
    /\ run' = run + 1
    /\ request_history' = messages
    /\ task_results' = <<>>
    /\ task_calls' = 1
    /\ task_decomposition' = TD(<<>>, FALSE)
    /\ execution_order' = <<>>
    /\ pos' = 1
    /\ results' = <<>>
    /\ choice_state' = NoState
    /\ choice_content' = <<>>
    /\ final_content' = NoMessage
    /\ calls' = <<>>
    /\ n_calls' = 0
    /\ decomp_blocks' = <<DecompositionBlock(<<>>)>>
    /\ accumulated' = <<>>
    /\ agg_args' = <<>>
    /\ ended_by' = ""
    /\ error' = ""
    /\ pc' = "decompose"
    /\ UNCHANGED <<ums_conversation_id, gpa_intermediate_state, recovered, created>>

NextRuns ==
    \/ \E h \in Histories : HandleRequest(h)
    \/ \E h \in Histories : HandleNextRequest(h)
    \/ DecomposeRaise
    \/ pc = "decompose" /\ \E td \in RunsCatalogue : DecomposeStop(td)
    \/ pc = "decompose" /\ \E td \in RunsCatalogue : DecomposeExecute(td)
    \/ \E st \in RunStates(run) : ExecGpaReturn("X", st)
    \/ \E m \in GatewayErrors : ExecGpaRaise(m)
    \/ \E s \in {<<>>} : AggregateReturn(s)
    \/ \E s \in {<<>>} : AggregateRaise(s)

SpecRuns == Init /\ [][NextRuns]_vars

(***************************************************************************)
(* C1.  For every subtask list with distinct task_ids in which every       *)
(* depends_on names another task of the list and following depends_on      *)
(* never leads back (a single-parent forest), the returned order places    *)
(* every task at a strictly later position than the task it depends on.    *)
(***************************************************************************)
\* following depends_on from id for at most n steps reaches a task without dependency
RECURSIVE ReachesRoot(_, _, _)
ReachesRoot(sts, id, n) ==
    IF id \notin TaskIds(sts) THEN FALSE
    ELSE IF TaskOf(sts, id).depends_on = NoDep THEN TRUE
    ELSE IF n = 0 THEN FALSE
    ELSE ReachesRoot(sts, TaskOf(sts, id).depends_on, n - 1)

IsForest(sts) ==
    /\ \A i, j \in DOMAIN sts : i # j => sts[i].task_id # sts[j].task_id
    /\ \A i \in DOMAIN sts : ReachesRoot(sts, sts[i].task_id, Len(sts))

PlacedAfterDependency(sts, order) ==
    \A i \in DOMAIN sts :
        /\ Cardinality(Positions(order, sts[i].task_id)) = 1
        /\ sts[i].depends_on # NoDep =>
              \E p, q \in DOMAIN order :
                  /\ order[p] = sts[i].depends_on
                  /\ order[q] = sts[i].task_id
                  /\ p < q

\* C1: in a single-parent forest every task is placed after the task it depends on
C1_DependencyFirst ==
    (pc \in {"sorted", "failed"} /\ IsForest(subtasks)) =>
        /\ pc = "sorted"
        /\ PlacedAfterDependency(subtasks, execution_order)

\* a forest of three tasks listed children first has been sorted
C1_Witness ==
    /\ pc = "sorted"
    /\ IsForest(subtasks)
    /\ Len(subtasks) = 3
    /\ subtasks[1].depends_on = subtasks[2].task_id
    /\ subtasks[2].depends_on = subtasks[3].task_id

(***************************************************************************)
(* SpecRecovery: Session State Recovery applied to every history of at     *)
(* most MaxHistory messages.                                               *)
(***************************************************************************)
MessageStates ==
    { NoState, State(None, <<"f1">>), State("", <<>>), State("a", <<>>), State("b", <<"f1">>) }

RecoveryInputs == UNION {[1..n -> MessageStates] : n \in 0..MaxHistory}

InitRecovery ==
    /\ pc = "recover"
    /\ task_decomposition = TD(<<>>, FALSE)
    /\ request_history \in RecoveryInputs
    /\ task_calls = 0
    /\ task_results = <<>>
    /\ execution_order = <<>>
    /\ pos = 1
    /\ results = <<>>
    /\ ums_conversation_id = None
    /\ gpa_intermediate_state = <<>>
    /\ choice_state = NoState
    /\ choice_content = <<>>
    /\ final_content = NoMessage
    /\ calls = <<>>
    /\ n_calls = 0
    /\ decomp_blocks = <<>>
    /\ accumulated = <<>>
    /\ agg_args = <<>>
    /\ ended_by = ""
    /\ error = ""
    /\ recovered = None
    /\ run = 0
    /\ created = <<>>

Recover ==
    /\ pc = "recover"
    /\ recovered' = get_ums_conversation_id(request_history)
    /\ pc' = "recovered"
    /\ UNCHANGED <<request_history, task_calls, task_results, task_decomposition,
                   execution_order, pos, results, ums_conversation_id,
                   gpa_intermediate_state, choice_state, choice_content, final_content,
                   calls, n_calls, decomp_blocks, accumulated, agg_args, ended_by, error,
                   run, created>>

NextRecovery == Recover

SpecRecovery == InitRecovery /\ [][NextRecovery]_vars

(***************************************************************************)
(* SpecGateway: UMSAgentGateway.response, called as its signature asks      *)
(* (choice, stage, request, additional_instructions), up to MaxUmsCalls     *)
(* times in each of up to MaxTurns turns of one conversation.  A turn's     *)
(* request carries the earlier turns' messages with the state their choice  *)
(* was given.                                                               *)
(***************************************************************************)
\* the id the UMS side gives the next conversation it creates
NewConversationId == ToString(Len(created) + 1)

InitGateway ==
    /\ pc = "turn"
    /\ task_decomposition = TD(<<>>, FALSE)
    /\ request_history \in Histories
    /\ task_calls = 0
    /\ task_results = <<>>
    /\ execution_order = <<>>
    /\ pos = 1
    /\ results = <<>>
    /\ ums_conversation_id = None
    /\ gpa_intermediate_state = <<>>
    /\ choice_state = NoState
    /\ choice_content = <<>>
    /\ final_content = NoMessage
    /\ calls = <<>>
    /\ n_calls = 0
    /\ decomp_blocks = <<>>
    /\ accumulated = <<>>
    /\ agg_args = <<>>
    /\ ended_by = ""
    /\ error = ""
    /\ recovered = None
    /\ run = 1
    /\ created = <<>>

\* response: the id is looked up in request.messages and a conversation is created
\* if there is none; the agent answers; the id is put into the choice state
UmsResponseReturn ==
    /\ pc = "turn"
    /\ n_calls < MaxUmsCalls
    /\ n_calls' = n_calls + 1
    /\ recovered' = get_ums_conversation_id(request_history)
    /\ IF ~Truthy(get_ums_conversation_id(request_history))
       THEN /\ created' = Append(created, NewConversationId)
            /\ choice_state' = State(NewConversationId, <<>>)
       ELSE /\ created' = created
            /\ choice_state' = State(get_ums_conversation_id(request_history), <<>>)
    /\ error' = ""
    /\ UNCHANGED <<pc, request_history, task_calls, task_results, task_decomposition,
                   execution_order, pos, results, ums_conversation_id,
                   gpa_intermediate_state, choice_content, final_content, calls,
                   decomp_blocks, accumulated, agg_args, ended_by, run>>

\* response: no id is found and __create_ums_conversation raises
UmsCreateRaise ==
    /\ pc = "turn"
    /\ n_calls < MaxUmsCalls
    /\ ~Truthy(get_ums_conversation_id(request_history))
    /\ n_calls' = n_calls + 1
    /\ recovered' = get_ums_conversation_id(request_history)
    /\ error' = "CreateError"
    /\ UNCHANGED <<pc, request_history, task_calls, task_results, task_decomposition,
                   execution_order, pos, results, ums_conversation_id,
                   gpa_intermediate_state, choice_state, choice_content, final_content,
                   calls, decomp_blocks, accumulated, agg_args, ended_by, run, created>>

\* response: the id is found or created, then __call_ums_agent raises before
\* choice.set_state is reached
UmsCallRaise ==
    /\ pc = "turn"
    /\ n_calls < MaxUmsCalls
    /\ n_calls' = n_calls + 1
    /\ recovered' = get_ums_conversation_id(request_history)
    /\ created' = IF ~Truthy(get_ums_conversation_id(request_history))
                  THEN Append(created, NewConversationId)
                  ELSE created
    /\ error' = "CallError"
    /\ UNCHANGED <<pc, request_history, task_calls, task_results, task_decomposition,
                   execution_order, pos, results, ums_conversation_id,
                   gpa_intermediate_state, choice_state, choice_content, final_content,
                   calls, decomp_blocks, accumulated, agg_args, ended_by, run>>

\* the turn ends: the next turn's request carries this turn's message with the
\* state its choice was given, and has a choice of its own
TurnEnd ==
    /\ pc = "turn"
    /\ run < MaxTurns
    /\ run' = run + 1
    /\ request_history' = Append(request_history, choice_state)
    /\ choice_state' = NoState
    /\ n_calls' = 0
    /\ error' = ""
    /\ UNCHANGED <<pc, task_calls, task_results, task_decomposition, execution_order, pos,
                   results, ums_conversation_id, gpa_intermediate_state, choice_content,
                   final_content, calls, decomp_blocks, accumulated, agg_args, ended_by,
                   recovered, created>>

NextGateway == UmsResponseReturn \/ UmsCreateRaise \/ UmsCallRaise \/ TurnEnd

SpecGateway == InitGateway /\ [][NextGateway]_vars

(***************************************************************************)
(* Properties of one round of _execute_subtasks (under Spec).              *)
(***************************************************************************)
\* the round's for loop is over (or was never entered)
RoundOver == pc # "execute"

Failed(value) ==
    /\ value.agent_result.success = FALSE
    /\ value.agent_result.content = ""
    /\ value.agent_result.error \notin {None, ""}

\* every task_id from position i on in the execution order was dispatched, in
\* order, and has its own TaskResult
RestExecuted(i) ==
    \A j \in i..Len(execution_order) :
        /\ j \in DOMAIN calls
        /\ calls[j].task_id = execution_order[j]
        /\ InResults(results, execution_order[j])
        /\ ResultOf(results, execution_order[j]).task = TaskOf(subtasks, execution_order[j])

DependencyFailed(j) ==
    LET t == TaskOf(subtasks, execution_order[j])
    IN  /\ t.depends_on # NoDep
        /\ \E k \in 1..(j - 1) :
              /\ k \in DOMAIN calls
              /\ calls[k].task_id = t.depends_on
              /\ calls[k].outcome = "raised"

\* C3: the dependent of a failed task is dispatched with its bare description
C3_DependentOfFailure ==
    \A j \in DOMAIN execution_order :
        DependencyFailed(j) =>
            /\ (j \in DOMAIN calls \/ RoundOver) =>
                  /\ j \in DOMAIN calls
                  /\ calls[j].task_id = execution_order[j]
                  /\ calls[j].instruction =
                        <<TaskOf(subtasks, execution_order[j]).task_description>>
                  /\ InResults(results, execution_order[j])
                  /\ ResultOf(results, execution_order[j]).agent_result.success
                        = (calls[j].outcome = "returned")
            /\ error # "GatewayError"

\* task 2 depends on task 1, task 1 failed, and task 2 was dispatched and succeeded
C3_Witness ==
    /\ Len(calls) >= 2
    /\ DependencyFailed(2)
    /\ calls[2].outcome = "returned"
    /\ ResultOf(results, calls[2].task_id).agent_result.success

(***************************************************************************)
(* C4.  At most max_task_calls = 10 decomposition calls are made, whatever *)
(* the decomposition collaborator returns, and the run terminates: every   *)
(* step of the run strictly decreases a well-founded measure.              *)
(***************************************************************************)
\* <<phase, rounds left, waiting for the decomposition, tasks left in the round>>
Measure ==
    << CASE pc = "idle" -> 3
         [] pc \in {"decompose", "execute"} -> 2
         [] pc = "aggregate" -> 1
         [] OTHER -> 0,
       max_task_calls - task_calls,
       IF pc = "decompose" THEN 1 ELSE 0,
       IF pc = "execute" THEN Len(execution_order) + 1 - pos ELSE 0 >>

LexLess(a, b) ==
    \E i \in 1..4 :
        /\ a[i] < b[i]
        /\ \A j \in 1..(i - 1) : a[j] = b[j]

\* C4: at most 10 decomposition calls, and every step decreases Measure
C4_BoundedRounds ==
    /\ [](/\ Len(decomp_blocks) <= 10
          /\ task_calls = Len(decomp_blocks)
          /\ \A i \in 1..4 : Measure[i] >= 0)
    /\ [][LexLess(Measure', Measure)]_vars

\* the tenth decomposition call returned subtasks and the loop ended by the cap
C4_Witness ==
    /\ Len(decomp_blocks) = 10
    /\ ended_by = "cap"
    /\ pc = "done"

(***************************************************************************)
(* C5.  If a turn involved the UMS session (a UMS subtask was dispatched,  *)
(* so that the gateway recovers the identifier from history or creates     *)
(* one), the state written at the end of the turn carries the identifier,  *)
(* and recovery over the next turn's history returns it.                   *)
(* The code does not do this: the formula below is violated.               *)
(***************************************************************************)
UmsDispatched == \E i \in DOMAIN accumulated : accumulated[i].task.agent_name = "UMS"

\* the next turn's history: this turn's messages and the outgoing message
NextHistory == Append(request_history, choice_state)

\* C5: the identifier of a turn that used the UMS session is written and recoverable
C5_SessionRoundTrip ==
    (pc = "done" /\ UmsDispatched) =>
        /\ Truthy(choice_state.ums)
        /\ Truthy(get_ums_conversation_id(request_history)) =>
              choice_state.ums = get_ums_conversation_id(request_history)
        /\ get_ums_conversation_id(NextHistory) = choice_state.ums

(***************************************************************************)
(* C6.  As claimed: recovery returns the identifier of the latest message  *)
(* that carries one.  This is violated; what holds (C6_EarliestIdentifier) *)
(* is that recovery returns the identifier of the earliest message that    *)
(* carries one, and an identifier whenever some message carries one.       *)
(***************************************************************************)
Carries(m) == m.has /\ Truthy(m.ums)

Carriers == {i \in DOMAIN request_history : Carries(request_history[i])}

Latest(S) == CHOOSE i \in S : \A j \in S : j <= i

Earliest(S) == CHOOSE i \in S : \A j \in S : i <= j

\* C6 as claimed: the identifier of the latest message that carries one is returned
C6_LatestIdentifier ==
    (pc = "recovered" /\ Carriers # {}) =>
        recovered = request_history[Latest(Carriers)].ums

\* C6 as amended: the identifier of the earliest message that carries one is
\* returned, and never none when one is carried
C6_EarliestIdentifier ==
    pc = "recovered" =>
        IF Carriers # {}
        THEN recovered = request_history[Earliest(Carriers)].ums /\ Truthy(recovered)
        ELSE recovered = None

\* two messages carry different identifiers, after a message that carries none
C6_Witness ==
    /\ pc = "recovered"
    /\ Cardinality(Carriers) >= 2
    /\ 1 \notin Carriers
    /\ request_history[Earliest(Carriers)].ums # request_history[Latest(Carriers)].ums

(***************************************************************************)
(* C7.  As claimed: a subtask with an unknown agent_name fails the whole   *)
(* _execute_subtasks call, gets no TaskResult, and the rest of the round   *)
(* is not executed.  This is violated; what holds (C7_UnknownAgentIsolated)*)
(* is that the ValueError is caught like any other: the subtask gets a     *)
(* TaskResult with success = false and the rest of the round is executed.  *)
(***************************************************************************)
UnknownAgent(i) == calls[i].agent_name \notin {"GPA", "UMS"}

\* C7 as claimed: an unknown agent_name ends the round without a TaskResult
C7_UnknownAgentFatal ==
    \A i \in DOMAIN calls :
        UnknownAgent(i) =>
            /\ pc = "failed"
            /\ ~InResults(results, calls[i].task_id)
            /\ Len(calls) = i

\* C7 as amended: an unknown agent_name gives a failed TaskResult and the round goes on
C7_UnknownAgentIsolated ==
    \A i \in DOMAIN calls :
        UnknownAgent(i) =>
            /\ calls[i].outcome = "raised"
            /\ InResults(results, calls[i].task_id)
            /\ Failed(ResultOf(results, calls[i].task_id))
            /\ ResultOf(results, calls[i].task_id).agent_result.error = "Unknown agent"
            /\ error # "ValueError"
            /\ pc = "execute" => (pos = Len(calls) + 1 /\ pos <= Len(execution_order))
            /\ RoundOver => RestExecuted(i)

\* the unknown agent's task was first, and the task after it was executed
C7_Witness ==
    /\ RoundOver
    /\ Len(calls) = 2
    /\ UnknownAgent(1)
    /\ calls[2].outcome = "returned"
    /\ Len(results) = 2

(***************************************************************************)
(* C8.  When a decomposition call returns an empty subtask list or         *)
(* stop = true, in any round, the loop ends at once: aggregation is called *)
(* with the results as they were, no subtask is dispatched and no further  *)
(* decomposition call is made, then or later in the run.                   *)
(***************************************************************************)
\* the results_context that lists these results
BlockOf(list) == <<"# Tasks Results:">> \o [i \in DOMAIN list |-> <<"json", list[i]>>]

\* this step is the return of a decomposition call
DecompositionReturns == pc = "decompose" /\ error' # "DecompositionError"

StopRequested(td) == td.subtasks = <<>> \/ td.stop = TRUE

\* the step on which such a decomposition returns
C8_StopStep ==
    (DecompositionReturns /\ StopRequested(task_decomposition')) =>
        /\ pc' = "aggregate"
        /\ ended_by' \in {"stop", "empty"}
        /\ task_results' = task_results
        /\ n_calls' = n_calls
        /\ decomp_blocks' = decomp_blocks
        /\ agg_args' = Append(agg_args, BlockOf(task_results))

\* every later step of the run
C8_AfterStop ==
    ended_by \in {"stop", "empty"} =>
        /\ task_results' = task_results
        /\ n_calls' = n_calls
        /\ decomp_blocks' = decomp_blocks
        /\ agg_args' = agg_args
        /\ pc' \in {"done", "failed"}

\* C8: a stop or an empty subtask list ends the loop at once and for good
C8_StopEndsLoop == [][C8_StopStep]_vars /\ [][C8_AfterStop]_vars

\* stop = true came with a non-empty subtask list in a round after the first
C8_Witness ==
    /\ ended_by = "stop"
    /\ task_decomposition.subtasks # <<>>
    /\ task_calls > 1
    /\ task_results # <<>>
    /\ pc = "done"

(***************************************************************************)
(* C9.  Every run in which no decomposition call fails has invoked the     *)
(* aggregation collaborator exactly once when it ends, with the full       *)
(* cumulative list of TaskResults.                                         *)
(* The code does not do this (a KeyError of _topological_sort ends the run *)
(* before aggregation): the formula below is violated.                     *)
(***************************************************************************)
\* C9: a run without decomposition failure ends with exactly one aggregation call,
\* made with all the results
C9_AggregatedOnce ==
    (pc \in {"done", "failed"} /\ error # "DecompositionError") =>
        /\ Len(agg_args) = 1
        /\ agg_args[1] = BlockOf(task_results)

(***************************************************************************)
(* C10.  When the decomposition call of round N+1 is made, every scheduled *)
(* subtask of round N has a TaskResult, and the results block of the call  *)
(* holds every TaskResult of rounds 1..N, successful and failed, in the    *)
(* order in which they were created.                                       *)
(***************************************************************************)
LastBlock == decomp_blocks[Len(decomp_blocks)]

\* C10: the next decomposition call is made after the round's last TaskResult, with
\* a block of all results in creation order
C10_RoundsInOrder ==
    (pc = "decompose" /\ task_calls > 1) =>
        /\ RestExecuted(1)
        /\ \A j \in DOMAIN execution_order :
              \E i \in DOMAIN accumulated :
                  accumulated[i] = ResultOf(results, execution_order[j])
        /\ task_results = accumulated
        /\ LastBlock =
              IF accumulated = <<>> THEN <<>>
              ELSE <<"## Results from previous tasks:">>
                   \o [i \in DOMAIN accumulated |-> <<"json", accumulated[i]>>]

\* the third decomposition call is made with a block holding a success and a failure
C10_Witness ==
    /\ pc = "decompose"
    /\ task_calls = 3
    /\ \E i \in DOMAIN accumulated : accumulated[i].agent_result.success
    /\ \E i \in DOMAIN accumulated : ~accumulated[i].agent_result.success
    /\ Len(LastBlock) = Len(accumulated) + 1

(***************************************************************************)
(* C11.  A depends_on that names a task completed in an earlier round is   *)
(* valid: the round that carries it is scheduled and executed, and neither *)
(* the round nor the run fails because of it.                              *)
(* The code does not do this (_topological_sort raises KeyError for a      *)
(* depends_on outside the current list): the formula below is violated.    *)
(***************************************************************************)
\* subtask i of td depends on a task that is not in td but has a TaskResult from an
\* earlier round of the run
NamesEarlierTask(td, i) ==
    /\ td.subtasks[i].depends_on # NoDep
    /\ \A k \in DOMAIN td.subtasks : td.subtasks[k].task_id # td.subtasks[i].depends_on
    /\ \E k \in DOMAIN task_results :
          task_results[k].task.task_id = td.subtasks[i].depends_on

\* C11: a round whose only out-of-list dependencies name tasks of earlier rounds does
\* not end the run with the scheduler's KeyError
C11_EarlierRoundDependency ==
    ( /\ ~StopRequested(task_decomposition)
      /\ \E i \in DOMAIN subtasks : NamesEarlierTask(task_decomposition, i)
      /\ \A i \in DOMAIN subtasks :
            \/ subtasks[i].depends_on = NoDep
            \/ subtasks[i].depends_on \in TaskIds(subtasks)
            \/ NamesEarlierTask(task_decomposition, i) )
    => error # "KeyError"

(***************************************************************************)
(* C12.  In a run where some subtasks failed and others succeeded, the     *)
(* results block passed to aggregation contains no TaskResult with         *)
(* success = false.                                                        *)
(* As stated this does not hold (C12_OnlySuccessesAggregated is violated); *)
(* what holds is that the block lists every TaskResult of the run, the     *)
(* failed ones included, in the order of their creation.                   *)
(***************************************************************************)
SomeSucceeded == \E i \in DOMAIN accumulated : accumulated[i].agent_result.success

SomeFailed == \E i \in DOMAIN accumulated : ~accumulated[i].agent_result.success

\* C12 as stated: no failed TaskResult is in the block given to aggregation
C12_OnlySuccessesAggregated ==
    (agg_args # <<>> /\ SomeSucceeded /\ SomeFailed) =>
        \A k \in 2..Len(agg_args[1]) : agg_args[1][k][2].agent_result.success

\* C12: the block given to aggregation lists every TaskResult, failed or not, in
\* creation order
C12_AllResultsAggregated ==
    agg_args # <<>> =>
        /\ Len(agg_args[1]) = Len(accumulated) + 1
        /\ agg_args[1][1] = "# Tasks Results:"
        /\ \A i \in DOMAIN accumulated : agg_args[1][i + 1] = <<"json", accumulated[i]>>

\* aggregation was called in a run with a failed and a successful subtask
C12_Witness ==
    /\ agg_args # <<>>
    /\ SomeSucceeded
    /\ SomeFailed
    /\ \E k \in 2..Len(agg_args[1]) : ~agg_args[1][k][2].agent_result.success

(***************************************************************************)
(* C13.  If the aggregation stream fails after k >= 0 increments,          *)
(* _aggregate_results returns a message whose content is the concatenation *)
(* of those k increments; if the stream ends having yielded nothing the    *)
(* content is the empty string.                                            *)
(* As stated this does not hold (C13_PartialContentReturned is violated):  *)
(* the exception propagates, no message is returned and no state is        *)
(* written; the part about a stream that ends normally holds.              *)
(***************************************************************************)
\* C13 as stated: after a stream failure the message with the content streamed so far
\* is returned
C13_PartialContentReturned ==
    /\ error = "AggregationError" => final_content = ReturnedMessage(choice_content)
    /\ (pc = "done" /\ choice_content = <<>>) => final_content = ReturnedMessage(<<>>)

\* C13: a stream failure ends the run without a message, without state and without a
\* second aggregation call; a stream that ends returns the concatenation of its
\* increments
C13_StreamFailurePropagates ==
    /\ error = "AggregationError" =>
          /\ pc = "failed"
          /\ final_content = NoMessage
          /\ choice_state = NoState
          /\ Len(agg_args) = 1
    /\ pc = "done" => final_content = ReturnedMessage(choice_content)

\* the stream failed after it had delivered an increment
C13_Witness ==
    /\ error = "AggregationError"
    /\ choice_content # <<>>
    /\ pc = "failed"

\* the stream ended normally without any increment
C13_EmptyStreamWitness ==
    /\ pc = "done"
    /\ choice_content = <<>>
    /\ final_content = ReturnedMessage(<<>>)

(***************************************************************************)
(* C16.  A subtask with depends_on = None gets no context; a subtask that  *)
(* depends on X gets exactly the serialized TaskResult of X when X was     *)
(* executed earlier in the same round with success = true, and no context  *)
(* otherwise; it never gets the result of any other task.                  *)
(***************************************************************************)
\* the TaskResult created by the k-th dispatch of the current round
RoundResult(k) == accumulated[Len(accumulated) - Len(calls) + k]

\* the dispatches before the j-th that ran the dependency of its task and returned
SucceededDependency(j) ==
    {k \in 1..(j - 1) :
        /\ calls[k].task_id = TaskOf(subtasks, calls[j].task_id).depends_on
        /\ calls[k].outcome = "returned"
        /\ RoundResult(k).agent_result.success}

\* the instruction the j-th dispatch must carry
ExpectedInstruction(j) ==
    LET t == TaskOf(subtasks, calls[j].task_id)
    IN  IF t.depends_on # NoDep /\ SucceededDependency(j) # {}
        THEN <<<<"json", RoundResult(CHOOSE k \in SucceededDependency(j) : TRUE)>>,
               "\n\n---\n\nYour Task: ", t.task_description>>
        ELSE <<t.task_description>>

\* C16: every dispatch carries the successful result of its own dependency, or nothing
C16_ContextResolution ==
    \A j \in DOMAIN calls : calls[j].instruction = ExpectedInstruction(j)

\* in one round a dependent got its dependency's result while a sibling's result,
\* created in between, was not passed on
C16_Witness ==
    /\ Len(calls) = 3
    /\ TaskOf(subtasks, calls[3].task_id).depends_on = calls[1].task_id
    /\ calls[2].outcome = "returned"
    /\ Len(calls[3].instruction) = 3
    /\ calls[3].instruction[1] = <<"json", RoundResult(1)>>

(***************************************************************************)
(* C17.  A decomposition call that fails (collaborator error or output     *)
(* that does not fit the schema), in any round, is fatal: handle_request   *)
(* ends with the error, no further subtask is executed, aggregation is     *)
(* never invoked and no state is written to the outgoing message.          *)
(***************************************************************************)
\* the state in which such a failure leaves the run
C17_FailedState ==
    error = "DecompositionError" =>
        /\ pc = "failed"
        /\ agg_args = <<>>
        /\ choice_state = NoState
        /\ final_content = NoMessage

\* the step on which the decomposition call fails
C17_FailureStep ==
    (error # "DecompositionError" /\ error' = "DecompositionError") =>
        /\ pc = "decompose"
        /\ n_calls' = n_calls
        /\ task_results' = task_results

\* no step follows it
C17_NoLaterStep == error # "DecompositionError"

\* C17: a failed decomposition call ends the run without dispatch, aggregation or state
C17_DecompositionFatal ==
    /\ []C17_FailedState
    /\ [][C17_FailureStep]_vars
    /\ [][C17_NoLaterStep]_vars

\* the decomposition call of the second round failed after subtasks had been run
C17_Witness ==
    /\ error = "DecompositionError"
    /\ task_calls = 2
    /\ n_calls > 0
    /\ pc = "failed"

(***************************************************************************)
(* C18.  In a round whose subtask list has unique task_ids and forms an    *)
(* in-list single-parent forest, exactly one gateway call is issued per    *)
(* subtask, one at a time, in exactly the order _topological_sort returned,*)
(* and the returned list holds exactly one TaskResult per subtask.         *)
(***************************************************************************)
\* the task_ids of the round's dispatches, in the order of the dispatches
Dispatched == [j \in DOMAIN calls |-> calls[j].task_id]

\* C18: the dispatches follow the scheduler's order, one per subtask, each with its
\* TaskResult
C18_OneCallPerSubtask ==
    (~StopRequested(task_decomposition) /\ IsForest(subtasks)) =>
        /\ execution_order = TopologicalSort(subtasks)
        /\ Dispatched = SubSeq(execution_order, 1, Len(calls))
        /\ Len(results) = Len(calls)
        /\ \A j \in DOMAIN calls :
              Cardinality({k \in DOMAIN results : results[k].task.task_id = calls[j].task_id})
                  = 1
        /\ RoundOver =>
              /\ Len(calls) = Len(subtasks)
              /\ \A i \in DOMAIN subtasks :
                    /\ Cardinality({j \in DOMAIN calls : calls[j].task_id = subtasks[i].task_id})
                           = 1
                    /\ Cardinality({k \in DOMAIN results : results[k].task = subtasks[i]}) = 1
              /\ Len(task_results) >= Len(results)
              /\ SubSeq(task_results, Len(task_results) - Len(results) + 1,
                        Len(task_results)) = results

\* a forest of three subtasks was run to its end, one of the calls having raised
C18_Witness ==
    /\ RoundOver
    /\ Len(subtasks) = 3
    /\ IsForest(subtasks)
    /\ Len(calls) = 3
    /\ Len(results) = 3
    /\ \E j \in DOMAIN calls : calls[j].outcome = "raised"
    /\ \E j \in DOMAIN calls : calls[j].outcome = "returned"

(***************************************************************************)
(* C19.  For a subtask list whose depends_on all name task_ids of the list,*)
(* _topological_sort terminates, also with self-dependencies and mutual    *)
(* cycles: the tasks on a cycle and their descendants are absent from the  *)
(* order, are never dispatched and get no TaskResult, no error is raised,  *)
(* and every other task is in the order exactly once.  (Under SpecRound.)  *)
(***************************************************************************)
\* following depends_on from this task ends at a task without dependency
Schedulable(id) == ReachesRoot(subtasks, id, Len(subtasks))

\* C19: exactly the tasks that hang from a root are ordered, dispatched and given a
\* TaskResult; the others are dropped without error
C19_CyclesDropped ==
    (pc \in {"execute", "decompose"} /\ ~StopRequested(task_decomposition)) =>
        /\ error = ""
        /\ \A i \in DOMAIN subtasks :
              IF Schedulable(subtasks[i].task_id)
              THEN Cardinality(Positions(execution_order, subtasks[i].task_id)) = 1
              ELSE /\ Positions(execution_order, subtasks[i].task_id) = {}
                   /\ \A j \in DOMAIN calls : calls[j].task_id # subtasks[i].task_id
                   /\ \A k \in DOMAIN results : results[k].task.task_id # subtasks[i].task_id
                   /\ \A k \in DOMAIN accumulated :
                         accumulated[k].task.task_id # subtasks[i].task_id
        /\ pc = "decompose" =>
              /\ Len(calls) = Len(execution_order)
              /\ Len(task_results) = Len(execution_order)
              /\ task_calls = 2

\* the round of a self-dependent task, a task that depends on it and a free task is
\* over: only the free task was run
C19_Witness ==
    /\ pc = "decompose"
    /\ task_calls = 2
    /\ Len(subtasks) = 3
    /\ \E i, j, k \in DOMAIN subtasks :
          /\ subtasks[i].depends_on = subtasks[i].task_id
          /\ j # i
          /\ subtasks[j].depends_on = subtasks[i].task_id
          /\ subtasks[k].depends_on = NoDep
          /\ execution_order = <<subtasks[k].task_id>>
    /\ Len(calls) = 1
    /\ Len(task_results) = 1

\* the round of two tasks that depend on each other and a free task is over
C19_MutualCycleWitness ==
    /\ pc = "decompose"
    /\ task_calls = 2
    /\ \E i, j, k \in DOMAIN subtasks :
          /\ i # j
          /\ subtasks[i].depends_on = subtasks[j].task_id
          /\ subtasks[j].depends_on = subtasks[i].task_id
          /\ subtasks[k].depends_on = NoDep
          /\ execution_order = <<subtasks[k].task_id>>
    /\ Len(task_results) = 1

(***************************************************************************)
(* C14.  No session state survives outside the transcript: for two         *)
(* handle_request runs on the same MASCoordinator that belong to different *)
(* conversations, the state one run writes at its end never contains an    *)
(* identifier or a fragment that a gateway call of the other run returned. *)
(* (Under SpecRuns.)  The code does not do this (self.ums_conversation_id  *)
(* and self.gpa_intermediate_state are never reset): the formula below is  *)
(* violated.                                                               *)
(***************************************************************************)
\* the runs other than the current one
OtherRuns == (1..MaxRuns) \ {run}

\* C14: the state written at the end of a run holds nothing another run's gateway
\* calls returned
C14_NoStateAcrossRuns ==
    pc = "done" =>
        \A r \in OtherRuns :
            /\ choice_state.ums # SessionOf(r)
            /\ \A i \in DOMAIN choice_state.gpa : choice_state.gpa[i] # Fragment(r)

(***************************************************************************)
(* C20.  State merging treats the two keys independently: a returned       *)
(* identifier is stored (last write wins), a returned fragment list is     *)
(* appended to the accumulator, also when one returned state carries both  *)
(* keys; the accumulator is never shortened or reordered.  (Under          *)
(* SpecRuns.)  The code does not do this (the fragment list is looked at   *)
(* only when no identifier came): the formula below is violated.           *)
(***************************************************************************)
\* this step records a call that returned
CallReturns ==
    /\ Len(calls') = Len(calls) + 1
    /\ calls'[Len(calls')].outcome = "returned"

\* the state the call of this step returned
ReturnedState == calls'[Len(calls')].state

\* the merge the claim describes, for the step of a returned call
C20_MergeStep ==
    CallReturns =>
        /\ ums_conversation_id' =
              IF ReturnedState.has /\ ReturnedState.ums \notin {None, ""}
              THEN ReturnedState.ums
              ELSE ums_conversation_id
        /\ gpa_intermediate_state' =
              IF ReturnedState.has
              THEN gpa_intermediate_state \o ReturnedState.gpa
              ELSE gpa_intermediate_state

\* the accumulator only grows at its end
C20_AccumulatorGrows ==
    /\ Len(gpa_intermediate_state') >= Len(gpa_intermediate_state)
    /\ SubSeq(gpa_intermediate_state', 1, Len(gpa_intermediate_state)) = gpa_intermediate_state

\* C20: every returned state is merged key by key, and the accumulator only grows
C20_IndependentKeys == [][C20_MergeStep]_vars /\ [][C20_AccumulatorGrows]_vars

(***************************************************************************)
(* C15.  At most one remote UMS session is created per conversation: over  *)
(* all UMS calls of a turn and over the later turns whose history carries  *)
(* the earlier turns' state, the create-conversation call is issued at     *)
(* most once, and never when an identifier is already available.  (Under   *)
(* SpecGateway.)  The code does not do this (a second call of the same     *)
(* turn finds no identifier in request.messages and creates again): the    *)
(* formula below is violated.                                              *)
(***************************************************************************)
\* the identifiers the conversation's history carries
HistoryIds ==
    {request_history[i].ums :
        i \in {k \in DOMAIN request_history :
                  request_history[k].has /\ request_history[k].ums \notin {None, ""}}}

\* C15: one conversation has at most one UMS session, created at most once and not at
\* all when the history brought one
C15_OneSessionPerConversation ==
    /\ Len(created) <= 1
    /\ Cardinality(HistoryIds \cup {created[i] : i \in DOMAIN created}) <= 1

====
